---- MODULE Spec2Model ----
(***************************************************************************)
(* State-machine model of the SD card (SPI mode) protocol decoder,         *)
(* decoders/sdcard_spi/pd.py.  One Decoder object receives 'BITS', 'DATA'  *)
(* and 'CS-CHANGE' packets from the SPI decoder below it through decode()  *)
(* and emits annotations through put().                                    *)
(*                                                                         *)
(* The decoder's fields are the variables.  Every handler of the code is   *)
(* an operator from a record of those fields to the record after the       *)
(* handler has run; an action reads the fields (Self), applies the handler *)
(* decode() dispatches to, and writes the fields back (Commit).            *)
(*                                                                         *)
(* Every annotation carries the sample range put() received.  Left out:    *)
(* the command-name tables (common.sdcard), self.miso/self.mosi, which are *)
(* written and read within the same decode() call, and 'TRANSFER' packets, *)
(* which decode() returns from without reading or writing a field.         *)
(* self.arg is not a variable: only the command handlers read it, and they *)
(* run while cmd_token still holds the token it was computed from, so the  *)
(* model computes it there (Arg).                                          *)
(***************************************************************************)
EXTENDS Integers, Sequences, FiniteSets, TLC

\* ------------------------------------------------------------------ bounds
\* cmd_token is not capped by the code; the model stops delivering host
\* bytes to the command-token path once it holds MaxTokenLen bytes.
MaxTokenLen == 7
\* Data-block payload bytes accumulated before the model stops delivering
\* bytes to a data-block phase whose block length is larger than this.
MaxBuf == 3
\* 'DATA' packets of a run whose sample numbers are tracked.
MaxBytes == 26

\* --------------------------------------------------------- program constants
TokenLen == 6
CsdLen == 20
\* An R3 response taken to be one byte longer.
R3LenLong == 6
R3Len == 5
R7Len == 5
DefaultBlockLen == 512
CmdAppCmd == 55

\* Command indices handle_command_token routes to 'HANDLE CMD<n>'.
HandledCmds == {0, 1, 8, 9, 13, 16, 17, 24, 41, 49, 55, 58, 59}
\* Command indices that keep is_acmd as it is when their token is parsed.
AcmdSiblings == {13, 18, 22, 23, 25, 26, 38, 41, 42, 43, 44, 45, 46, 47, 48, 49, 51}
\* The methods of Decoder that getattr(self, 'handle_%scmd%s') can find.
Handlers ==
    {"handle_cmd0", "handle_cmd1", "handle_cmd8", "handle_cmd9",
     "handle_cmd10", "handle_cmd13", "handle_cmd16", "handle_cmd17",
     "handle_cmd24", "handle_cmd49", "handle_cmd55", "handle_cmd58",
     "handle_cmd59", "handle_acmd41", "handle_cmd999"}

\* ------------------------------------------------------------------ inputs
\* A run draws its host (MOSI) and card (MISO) bytes from one scenario: a
\* small alphabet of byte values, and the block length an earlier CMD16 of
\* the session has left behind (0: none).  A scenario may also name byte
\* sequences (scripts) the host sends as a whole, such as a command token,
\* the number of payload bytes it lets a data block accumulate, whether the
\* sample numbers of its packets are tracked (they are all 0 otherwise), and
\* whether its bit lists hold the most significant bit first.
Cmd(n) == 64 + n
Script(h, c, s, m, t, o) ==
    [host |-> h, card |-> c, blocklen |-> 0, scripts |-> s, maxbuf |-> m,
     timed |-> t, msb_first |-> o]
Scn(h, c, b) ==
    [Script(h, c, {}, MaxBuf, FALSE, FALSE) EXCEPT !.blocklen = b]
Scenarios ==
    { Scn({255, Cmd(n)}, {255, 5}, 0) : n \in {0, 1, 8, 13, 16, 55, 58, 59, 10} }
    \cup { Scn({Cmd(55), Cmd(n)}, {255, 5}, 0) : n \in {13, 41, 49, 18} }
    \cup { Scn({255, Cmd(9)}, {1}, 0),
           Scn({Cmd(17), Cmd(24)}, {255, 5}, 0),
           Scn({255, Cmd(17)}, {255, 254, 5}, 0),
           Scn({255, Cmd(17)}, {255, 254, 5}, 2),
           Scn({254, Cmd(24)}, {255, 0, 5}, 0),
           Scn({254, Cmd(24)}, {255, 0, 5}, 2) }

\* A command token: index, last argument byte, last byte (CRC7 and end bit).
Token(n, a, c) == <<Cmd(n), 0, 0, 0, a, c>>
\* k filler bytes, and k payload bytes of a data block.
Fill(k) == [i \in 1..k |-> 255]
Payload(k) == [i \in 1..k |-> 254]
\* A whole CMD24 exchange as the host drives it: the token, the bytes during
\* which the card answers, the start token, k payload bytes, and the bytes
\* of the data response and the busy time.
WriteBlock(k, busy) ==
    Token(24, 0, 1) \o Fill(2) \o <<254>> \o Payload(k) \o Fill(busy)
\* CMD0 tokens with every value of the start, transmitter and end bit.
TokenVariants ==
    { <<first, 0, 0, 0, 0, 149>> : first \in {64, 0, 192, 128} }
    \cup { <<64, 1, 2, 3, 4, 148>> }
\* The scenarios of runs in which the host sends whole command tokens.
ScriptScenarios ==
    { Script({255}, {255, 254, 5}, {Token(16, 2, 1), Token(17, 0, 1)},
             MaxBuf, FALSE, FALSE),
      Script({255}, {255, 0, 5}, {Token(24, 0, 1), <<254, 7>>},
             MaxBuf, FALSE, FALSE),
      Script({}, {255, 11, 13}, {Token(16, 2, 1) \o Fill(2), WriteBlock(2, 2)},
             MaxBuf, FALSE, FALSE),
      Script({255}, {254}, {Token(16, 2, 1), Token(17, 0, 1)},
             DefaultBlockLen, FALSE, FALSE),
      Script({}, {5}, {WriteBlock(DefaultBlockLen, 2)},
             DefaultBlockLen, FALSE, FALSE),
      Script({}, {0, 5}, {Token(16, 1, 1) \o Fill(2), WriteBlock(1, 4)},
             MaxBuf, TRUE, FALSE),
      Script({255}, {255, 5}, {Token(n, 0, 1) : n \in {8, 10, 13, 58}},
             MaxBuf, FALSE, FALSE),
      Script({255}, {192, 8, 0}, {Token(58, 0, 1)}, MaxBuf, FALSE, FALSE),
      Script({}, {1}, {Token(9, 0, 1) \o Fill(CsdLen)}, MaxBuf, TRUE, FALSE),
      Script({}, {255, 1},
             {Token(n, 0, 1) \o Fill(2) : n \in {0, 1, 13, 49}},
             MaxBuf, TRUE, FALSE),
      Script({}, {254, 0},
             {Token(16, 1, 1) \o Fill(2), Token(17, 0, 1) \o Fill(5),
              Token(58, 0, 1) \o Fill(6), Token(8, 0, 1) \o Fill(6)},
             MaxBuf, TRUE, FALSE) }
    \cup { Script({255}, {255, 5}, TokenVariants, MaxBuf, FALSE, o) :
              o \in BOOLEAN }

\* ----------------------------------------------------------------- helpers
Bit(v, i) == (v \div (2 ^ i)) % 2
\* The bit values of a 'BITS' packet: entry i is bit i of the byte.
BitsOf(v) == [i \in 0..7 |-> Bit(v, i)]
ByteOf(bits) == bits[0] + 2 * bits[1] + 4 * bits[2] + 8 * bits[3]
                + 16 * bits[4] + 32 * bits[5] + 64 * bits[6] + 128 * bits[7]
\* The bit values with the most significant bit first.
BitsMsbFirst(v) == [i \in 0..7 |-> Bit(v, 7 - i)]
ByteOfMsbFirst(bits) == ByteOf([i \in 0..7 |-> bits[7 - i]])
NoBits == <<>>
NotSet == -1

\* A 32-bit value as its four bytes, most significant first: the values of
\* self.arg, self.blocklen and the OCR do not fit the checker's integers.
U32(n) == <<0, 0, n \div 256, n % 256>>
Low16(a) == a[3] * 256 + a[4]
Fits16(a) == a[1] = 0 /\ a[2] = 0
IsZero(a) == Fits16(a) /\ Low16(a) = 0
\* n < a and n = a + k, for a length n of the model.
Less(n, a) == ~Fits16(a) \/ n < Low16(a)
Equal(n, a, k) == Fits16(a) /\ n = Low16(a) + k
U32Bit(a, i) == Bit(a[4 - (i \div 8)], i % 8)

\* One annotation: class, text (the format string's name) and its values.
Ann(cls, txt, val) == [cls |-> cls, txt |-> txt, val |-> val]
\* An annotation with its sample range.
AnnAt(ss, es, cls, txt, val) ==
    [cls |-> cls, txt |-> txt, val |-> val, ss |-> ss, es |-> es]
At(a, ss, es) == AnnAt(ss, es, a.cls, a.txt, a.val)
\* The sample range of the k-th 'DATA' packet of a run: 8 samples, one per
\* bit, and 2 samples to the next byte.
SsOf(k) == 10 * k
EsOf(k) == 10 * k + 8
\* self.put(ss, es, self.out_ann, data) with the annotation as the code
\* built it, and putx, putb and put of the data a.  ss_data, es_data,
\* ss_crc and es_crc do not exist before their first assignment.
Put(d, a) == [d EXCEPT !.out = Append(@, a)]
put(d, ss, es, a) ==
    IF ss = NotSet \/ es = NotSet THEN [d EXCEPT !.exc = "AttributeError"]
    ELSE Put(d, At(a, ss, es))
putx(d, a) == put(d, d.ss_cmd, d.es_cmd, a)
putb(d, a) == put(d, d.ss_bit, d.es_bit, a)
\* "bit, self.ss_bit, self.es_bit = ..." of an entry <<bit, ss, es>>, and
\* "self.ss_bit, self.es_bit = first[1], last[2]".
SetBit(d, b) == [d EXCEPT !.ss_bit = b[2], !.es_bit = b[3]]
SetBits(d, first, last) == [d EXCEPT !.ss_bit = first[2], !.es_bit = last[3]]
Raise(d, e) == [d EXCEPT !.exc = e]

VARIABLES
    state, cmd_token, cmd_token_bits, is_acmd, blocklen, read_buf, read_bits,
    cmd_str, is_cmd24, cmd24_start_token_found, is_cmd17,
    cmd17_start_token_found, busy_first_byte, cmd_index,
    mosi_bits, miso_bits, ss, es, ss_busy, es_busy,
    ss_cmd, es_cmd, ss_bit, es_bit, ss_data, es_data, ss_crc, es_crc,
    out,        \* the annotations put() received during the last decode() call
    exc,        \* the exception the last decode() call raised, or "none"
    ptype,      \* the type of the last packet, with the new level for CS-CHANGE
    from,       \* self.state when the last decode() call began
    scn,        \* the scenario of this run
    stale,      \* how many bytes of cmd_token were received before the last
                \* CS assertion
    tok55,      \* command tokens parsed since handle_cmd55 last ran, counted
                \* up to 2 (-1: handle_cmd55 has not run)
    script,     \* the bytes the host has yet to send of its current script
    clock,      \* 'DATA' packets so far, in a run that tracks sample numbers
    run,        \* <<ss of the first, es of the last>> zero byte of the busy
                \* time the decoder is waiting in, <<>> before the first
    last16,     \* the argument of the CMD16 handled last (<<>>: of none)
    last_ss     \* the start of the annotation put() received last, in any
                \* decode() call so far (NotSet: there is none)

dvars == <<state, cmd_token, cmd_token_bits, is_acmd, blocklen, read_buf,
           read_bits, cmd_str, is_cmd24, cmd24_start_token_found, is_cmd17,
           cmd17_start_token_found, busy_first_byte, cmd_index,
           mosi_bits, miso_bits, ss, es, ss_busy, es_busy,
           ss_cmd, es_cmd, ss_bit, es_bit, ss_data, es_data, ss_crc, es_crc,
           out, exc>>
vars == <<dvars, ptype, from, scn, stale, tok55, script, clock, run, last16,
          last_ss>>

Self ==
    [state |-> state, cmd_token |-> cmd_token,
     cmd_token_bits |-> cmd_token_bits, is_acmd |-> is_acmd,
     blocklen |-> blocklen, read_buf |-> read_buf, read_bits |-> read_bits,
     cmd_str |-> cmd_str, is_cmd24 |-> is_cmd24,
     cmd24_start_token_found |-> cmd24_start_token_found,
     is_cmd17 |-> is_cmd17,
     cmd17_start_token_found |-> cmd17_start_token_found,
     busy_first_byte |-> busy_first_byte, cmd_index |-> cmd_index,
     mosi_bits |-> mosi_bits, miso_bits |-> miso_bits,
     ss |-> ss, es |-> es, ss_busy |-> ss_busy, es_busy |-> es_busy,
     ss_cmd |-> ss_cmd, es_cmd |-> es_cmd, ss_bit |-> ss_bit,
     es_bit |-> es_bit, ss_data |-> ss_data, es_data |-> es_data,
     ss_crc |-> ss_crc, es_crc |-> es_crc,
     out |-> <<>>, exc |-> "none"]

Commit(d) ==
    /\ state' = d.state
    /\ cmd_token' = d.cmd_token
    /\ cmd_token_bits' = d.cmd_token_bits
    /\ is_acmd' = d.is_acmd
    /\ blocklen' = d.blocklen
    /\ read_buf' = d.read_buf
    /\ read_bits' = d.read_bits
    /\ cmd_str' = d.cmd_str
    /\ is_cmd24' = d.is_cmd24
    /\ cmd24_start_token_found' = d.cmd24_start_token_found
    /\ is_cmd17' = d.is_cmd17
    /\ cmd17_start_token_found' = d.cmd17_start_token_found
    /\ busy_first_byte' = d.busy_first_byte
    /\ cmd_index' = d.cmd_index
    /\ mosi_bits' = d.mosi_bits
    /\ miso_bits' = d.miso_bits
    /\ ss' = d.ss
    /\ es' = d.es
    /\ ss_busy' = d.ss_busy
    /\ es_busy' = d.es_busy
    /\ ss_cmd' = d.ss_cmd
    /\ es_cmd' = d.es_cmd
    /\ ss_bit' = d.ss_bit
    /\ es_bit' = d.es_bit
    /\ ss_data' = d.ss_data
    /\ es_data' = d.es_data
    /\ ss_crc' = d.ss_crc
    /\ es_crc' = d.es_crc
    /\ out' = d.out
    /\ exc' = d.exc
    /\ last_ss' = IF d.out = <<>> THEN last_ss ELSE d.out[Len(d.out)].ss

\* reset(), called by __init__, in a run of one of the scenarios S;
\* blocklen is the scenario's.
InitIn(S) ==
    /\ scn \in S
    /\ state = "IDLE"
    /\ cmd_token = <<>>
    /\ cmd_token_bits = <<>>
    /\ is_acmd = FALSE
    /\ blocklen = U32(scn.blocklen)
    /\ read_buf = <<>>
    /\ read_bits = <<>>
    /\ cmd_str = ""
    /\ is_cmd24 = FALSE
    /\ cmd24_start_token_found = FALSE
    /\ is_cmd17 = FALSE
    /\ cmd17_start_token_found = FALSE
    /\ busy_first_byte = FALSE
    /\ cmd_index = NotSet
    /\ mosi_bits = NoBits
    /\ miso_bits = NoBits
    /\ ss = 0 /\ es = 0
    /\ ss_busy = 0 /\ es_busy = 0
    /\ ss_cmd = 0 /\ es_cmd = 0
    /\ ss_bit = 0 /\ es_bit = 0
    /\ ss_data = NotSet /\ es_data = NotSet
    /\ ss_crc = NotSet /\ es_crc = NotSet
    /\ out = <<>>
    /\ exc = "none"
    /\ ptype = "none"
    /\ from = "IDLE"
    /\ stale = 0
    /\ tok55 = -1
    /\ script = <<>>
    /\ clock = 0
    /\ run = <<>>
    /\ last16 = IF scn.blocklen = 0 THEN <<>> ELSE U32(scn.blocklen)
    /\ last_ss = NotSet

Init == InitIn(Scenarios)
\* The runs in which the host sends whole command tokens.
InitScript == InitIn(ScriptScenarios)

\* ------------------------------------------------------ handle_command_token
HandleState(n) == "HANDLE CMD" \o ToString(n)
\* self.state[10:] of a 'HANDLE CMD<n>' state.
CmdStrOf(st) == CHOOSE n \in HandledCmds \cup {999} : HandleState(n) = st
IsHandleState(st) == \E n \in HandledCmds \cup {999} : HandleState(n) = st

\* tb that takes entry 0 of a bit list to be the most significant bit.
tb_msb_first(d, byte, bit) == d.cmd_token_bits[(5 - byte) + 1][7 - bit]

\* tb(byte, bit): the entry <<bit, ss, es>> of bit `bit` of token byte number
\* `byte`, counted from the end.
tb(d, byte, bit) == d.cmd_token_bits[(5 - byte) + 1][bit]

StartBitAnn(bit) ==
    IF bit = 0 THEN Ann("BIT", "Start bit", <<bit>>)
    ELSE Ann("BIT_WARNING", "Start bit (Warning: Must be 0!)", <<bit>>)
TransmitterBitAnn(bit) ==
    IF bit = 1 THEN Ann("BIT", "Transmitter bit", <<bit>>)
    ELSE Ann("BIT_WARNING", "Transmitter bit (Warning: Must be 1!)", <<bit>>)
EndBitAnn(bit) ==
    IF bit = 1 THEN Ann("BIT", "End bit", <<bit>>)
    ELSE Ann("BIT_WARNING", "End bit (Warning: Must be 1!)", <<bit>>)

CommandIndex(t) == t[1] % 64
Argument(t) == <<t[2], t[3], t[4], t[5]>>
Crc7(t) == t[6] \div 2

\* "Leave ACMD mode if no intervening ACMD since previous CMD55."
AcmdAfterToken(cmd, acmd) ==
    IF cmd = CmdAppCmd THEN FALSE
    ELSE IF cmd \notin AcmdSiblings THEN FALSE
    ELSE acmd

CmdOrAcmd(acmd) == IF acmd THEN "ACMD" ELSE "CMD"

\* The hex dump of an unhandled command: the format has six %02x.
HexDump(d, s, cmd) ==
    IF Len(d.cmd_token) = TokenLen
    THEN putx(d, Ann("CMD" \o ToString(cmd), s \o ToString(cmd) \o ": hex",
                     d.cmd_token))
    ELSE Raise(d, "TypeError")

\* Lines 116-174: the token is complete.
ParseToken(d0) ==
    LET t == d0.cmd_token
        cmd == CommandIndex(t)
        acmd == AcmdAfterToken(cmd, d0.is_acmd)
        s == CmdOrAcmd(acmd)
        da == putb(SetBit(d0, tb(d0, 5, 7)), StartBitAnn(tb(d0, 5, 7)[1]))
        d1 == putb(SetBit(da, tb(d0, 5, 6)), TransmitterBitAnn(tb(d0, 5, 6)[1]))
        d2 == putb([SetBits(d1, tb(d0, 5, 5), tb(d0, 5, 0))
                       EXCEPT !.cmd_index = cmd, !.is_acmd = acmd],
                   Ann("BIT", "Command: " \o s, <<cmd>>))
        d3 == putb(SetBits(d2, tb(d0, 4, 7), tb(d0, 1, 0)),
                   Ann("BIT", "Argument", Argument(t)))
        db == putb(SetBits(d3, tb(d0, 0, 7), tb(d0, 0, 1)),
                   Ann("BIT", "CRC7", <<Crc7(t)>>))
        d4 == putb(SetBit(db, tb(d0, 0, 0)), EndBitAnn(tb(d0, 0, 0)[1]))
    IN  IF cmd \in HandledCmds
        THEN [d4 EXCEPT !.state = HandleState(cmd),
                        !.cmd_str = s \o ToString(cmd)]
        ELSE HexDump([d4 EXCEPT !.state = "HANDLE CMD999"], s, cmd)

handle_command_token(d, mosi) ==
    LET d1 == [d EXCEPT !.ss_cmd = IF Len(d.cmd_token) = 0 THEN d.ss ELSE @,
                        !.cmd_token = Append(@, mosi),
                        !.cmd_token_bits = Append(@, d.mosi_bits)]
    IN  IF Len(d1.cmd_token) < TokenLen THEN d1
        ELSE ParseToken([d1 EXCEPT !.es_cmd = d.es])

\* --------------------------------------------------------- command handlers
\* self.arg, as handle_command_token left it.
Arg(d) == Argument(d.cmd_token)

\* putc(cmd, desc): the one-line description of the command.
putc(d, cls, desc, val) == putx(d, Ann(cls, d.cmd_str \o ": " \o desc, val))

handle_cmd0(d) ==
    [putc(d, "CMD0", "Reset the SD card", <<>>)
        EXCEPT !.state = "GET RESPONSE R1"]

handle_cmd1(d) ==
    LET hcs == U32Bit(Arg(d), 30)
        d1 == putc(d, "CMD1",
                   "Send HCS info and activate the card init process", <<>>)
        hcs_bit == d.cmd_token_bits[(5 - 4) + 1][6]
    IN  [putb(SetBit(d1, hcs_bit), Ann("BIT", "HCS", <<hcs>>))
            EXCEPT !.state = "GET RESPONSE R1"]

handle_cmd8(d) ==
    [putc(d, "CMD8", "Send interface condition", <<>>)
        EXCEPT !.read_buf = <<>>, !.read_bits = <<>>,
               !.state = "GET RESPONSE R7"]

handle_cmd9(d, miso) ==
    LET d1 == putc(d, "CMD9",
                   "Ask card to send its card specific data (CSD)", <<>>)
        d2 == [d1 EXCEPT !.ss_cmd = IF Len(d.read_buf) = 0 THEN d.ss ELSE @]
        buf == Append(d1.read_buf, miso)
    IN  IF Len(buf) < CsdLen
        THEN [d2 EXCEPT !.read_buf = buf]
        ELSE [putx([d2 EXCEPT !.es_cmd = d.es],
                   Ann("CMD9", "CSD", SubSeq(buf, 5, Len(buf))))
                 EXCEPT !.read_buf = <<>>, !.state = "IDLE"]

handle_cmd10(d, miso) ==
    LET d1 == putc(d, "CMD10",
                   "Ask card to send its card identification (CID)", <<>>)
        buf == Append(d1.read_buf, miso)
    IN  IF Len(buf) < 16
        THEN [d1 EXCEPT !.read_buf = buf]
        ELSE [putx(d1, Ann("CMD10", "CID", buf))
                 EXCEPT !.read_buf = <<>>, !.state = "GET RESPONSE R1"]

handle_cmd13(d) ==
    [putc(d, "CMD13", "Ask card to send its status register", <<>>)
        EXCEPT !.read_buf = <<>>, !.state = "GET RESPONSE R2"]

handle_cmd16(d) ==
    LET d1 == [d EXCEPT !.blocklen = Arg(d)]
    IN  [putc(d1, "CMD16", "Set the block length", d1.blocklen)
            EXCEPT !.state = "GET RESPONSE R1"]

handle_cmd17(d) ==
    [putc(d, "CMD17", "Read a block from address", Arg(d))
        EXCEPT !.is_cmd17 = TRUE, !.state = "GET RESPONSE R1"]

handle_cmd24(d) ==
    [putc(d, "CMD24", "Write a block to address", Arg(d))
        EXCEPT !.is_cmd24 = TRUE, !.state = "GET RESPONSE R1"]

handle_cmd49(d) == [d EXCEPT !.state = "GET RESPONSE R1"]

\* handle_cmd55 without the assignment to is_acmd.
handle_cmd55_no_acmd(d) ==
    [putc(d, "CMD55", "Next command is an application-specific command", <<>>)
        EXCEPT !.state = "GET RESPONSE R1"]

handle_cmd55(d) ==
    [putc(d, "CMD55", "Next command is an application-specific command", <<>>)
        EXCEPT !.is_acmd = TRUE, !.state = "GET RESPONSE R1"]

handle_cmd58(d) ==
    [putc(d, "CMD58", "Read the OCR register", <<>>)
        EXCEPT !.read_buf = <<>>, !.read_bits = <<>>,
               !.state = "GET RESPONSE R3"]

handle_cmd59(d) ==
    LET crc_on_off == U32Bit(Arg(d), 0)
    IN  [putc(d, "CMD59", "Turn the SD card CRC option", <<crc_on_off>>)
            EXCEPT !.state = "GET RESPONSE R1"]

handle_acmd41(d) ==
    [putc(d, "ACMD41", "Send HCS info and activate the card init process", <<>>)
        EXCEPT !.state = "GET RESPONSE R1"]

handle_cmd999(d) == [d EXCEPT !.state = "GET RESPONSE R1"]

\* getattr(self, 'handle_%scmd%s' % (a, cmdstr)).
HandlerName(acmd, n) ==
    "handle_" \o (IF acmd THEN "a" ELSE "") \o "cmd" \o ToString(n)

\* handle_cmd(): the call of the method HandlerName found.
CallHandler(h, d, miso) ==
    CASE h = "handle_cmd0" -> handle_cmd0(d)
      [] h = "handle_cmd1" -> handle_cmd1(d)
      [] h = "handle_cmd8" -> handle_cmd8(d)
      [] h = "handle_cmd9" -> handle_cmd9(d, miso)
      [] h = "handle_cmd10" -> handle_cmd10(d, miso)
      [] h = "handle_cmd13" -> handle_cmd13(d)
      [] h = "handle_cmd16" -> handle_cmd16(d)
      [] h = "handle_cmd17" -> handle_cmd17(d)
      [] h = "handle_cmd24" -> handle_cmd24(d)
      [] h = "handle_cmd49" -> handle_cmd49(d)
      [] h = "handle_cmd55" -> handle_cmd55(d)
      [] h = "handle_cmd58" -> handle_cmd58(d)
      [] h = "handle_cmd59" -> handle_cmd59(d)
      [] h = "handle_acmd41" -> handle_acmd41(d)
      [] h = "handle_cmd999" -> handle_cmd999(d)

\* "Leave ACMD mode again after the first command after CMD55."
LeaveAcmd(acmd, n) == IF acmd /\ n # CmdAppCmd THEN FALSE ELSE acmd

\* -------------------------------------------------------- response handlers
R1BitText ==
    <<"Card is in idle state", "Erase sequence cleared",
      "Illegal command detected", "CRC check of last command failed",
      "Error in the sequence of erase commands",
      "Misaligned address used in command",
      "Command argument outside allowed range", "Bit 7 (always 0)">>

\* R1NextState with the two flags taken for each other.
R1NextStateSwapped(st, cmd17, cmd24) ==
    IF cmd24 THEN "HANDLE DATA BLOCK CMD17"
    ELSE IF cmd17 THEN "HANDLE DATA BLOCK CMD24"
    ELSE st

\* The state handle_response_r1 leaves: lines 362-365.
R1NextState(st, cmd17, cmd24) ==
    IF cmd24 THEN "HANDLE DATA BLOCK CMD24"
    ELSE IF cmd17 THEN "HANDLE DATA BLOCK CMD17"
    ELSE st

RECURSIVE PutR1Bits(_, _, _)
PutR1Bits(d, res, i) ==
    IF i > 7 THEN d
    ELSE PutR1Bits(putb(SetBit(d, d.miso_bits[i]),
                        Ann("BIT", R1BitText[i + 1],
                            <<IF i = 7 THEN 0 ELSE Bit(res, i)>>)),
                   res, i + 1)

handle_response_r1(d, res) ==
    LET d0 == [d EXCEPT !.ss_cmd = d.miso_bits[7][2],
                        !.es_cmd = d.miso_bits[0][3]]
        d1 == PutR1Bits(putx(d0, Ann("R1", "R1", <<res>>)), res, 0)
    IN  [d1 EXCEPT !.state = R1NextState(d1.state, d1.is_cmd17, d1.is_cmd24)]

R2BitText ==
    <<"Card is locked",
      "Attempt to erase a write-protected sector | Error in card lock/unlock operation",
      "General or unknown error", "Internal card controller error",
      "ECC failure to correct data", "Write protect violation",
      "Invalid selection for erase, sectors or groups",
      "Out of range | CSD overwrite">>

RECURSIVE PutR2Bits(_, _, _, _)
PutR2Bits(d, status, res, i) ==
    IF i > 7 THEN d
    ELSE PutR2Bits(putb(SetBit(d, d.miso_bits[i]),
                        Ann("BIT", R2BitText[i + 1],
                            <<Bit(IF i \in {5, 6} THEN res ELSE status, i)>>)),
                   status, res, i + 1)

handle_response_r2(d, res) ==
    LET d1 == [d EXCEPT !.es_cmd = d.es, !.read_buf = Append(@, res)]
    IN  IF Len(d1.read_buf) = 1
        THEN putx(handle_response_r1(d1, res), Ann("R2", "R2", <<res>>))
        ELSE LET r1 == d1.read_buf[1]
                 status == d1.read_buf[2]
                 d2 == putx(d1, Ann("R2", "R2: [R1, Status]", <<r1, status>>))
             IN  [PutR2Bits(d2, status, res, 0)
                     EXCEPT !.state = "IDLE", !.read_buf = <<>>]

\* get_bit that counts the R1 byte as the first of the four bytes.
get_bit_from_r1(d, b) == d.read_bits[(4 - (b \div 8)) - 1 + 1][b % 8]

\* get_bit(b) of handle_response_r3 and handle_response_r7: the entry
\* <<bit, ss, es>> of bit b of the four bytes after the R1 byte.
get_bit(d, b) == d.read_bits[((5 - (b \div 8)) - 1) + 1][b % 8]

Ocr(buf) == <<buf[2], buf[3], buf[4], buf[5]>>

Voltages == <<"2.7-2.8", "2.8-2.9", "2.9-3.0", "3.0-3.1", "3.1-3.2",
              "3.2-3.3", "3.3-3.4", "3.4-3.5", "3.5-3.6">>

RECURSIVE PutVoltages(_, _)
PutVoltages(d, k) ==
    IF k > 23 THEN d
    ELSE PutVoltages(putb(SetBit(d, get_bit(d, k)),
                          Ann("BIT", Voltages[k - 14] \o "V supported",
                              <<get_bit(d, k)[1]>>)), k + 1)

\* Lines 453-529: the fifth byte of an R3 response has arrived.
DecodeR3(d) ==
    LET r1 == d.read_buf[1]
        power_up_status == get_bit(d, 31)[1]
        uhs2 == get_bit(d, 29)[1]
        d1 == putx(d, Ann("R3", "R3: [R1, OCR]", <<r1>> \o Ocr(d.read_buf)))
        d2 == putb(SetBit(d1, get_bit(d, 31)),
                   Ann("BIT", "Card has finished the power up routine",
                       <<power_up_status>>))
        d3 == putb(SetBit(d2, get_bit(d, 30)),
                   Ann("BIT", "Card capacity",
                       IF power_up_status = 1 THEN <<get_bit(d, 30)[1]>>
                       ELSE <<>>))
        d4 == putb(SetBit(d3, get_bit(d, 29)),
                   Ann("BIT", "UHS-II interface supported", <<uhs2>>))
        d5 == putb(SetBit(d4, get_bit(d, 28)), Ann("BIT", "Reserved", <<28>>))
        d6 == putb(SetBit(d5, get_bit(d, 27)),
                   Ann("BIT", "Over 2TB is supported", <<get_bit(d, 27)[1]>>))
        d7 == putb(SetBits(d6, get_bit(d, 26), get_bit(d, 25)),
                   Ann("BIT", "Reserved", <<26, 25>>))
        d8 == putb(SetBit(d7, get_bit(d, 24)),
                   Ann("BIT", "Switching to 1.8V accepted",
                       <<get_bit(d, 24)[1]>>))
    IN  IF uhs2 = 1 THEN d8
        ELSE putb(SetBits(
                 putb(SetBit(
                     putb(SetBits(PutVoltages(d8, 15),
                                  get_bit(d, 14), get_bit(d, 8)),
                          Ann("BIT", "Reserved", <<14, 8>>)),
                     get_bit(d, 7)),
                     Ann("BIT", "Reserved", <<7>>)),
                 get_bit(d, 6), get_bit(d, 0)),
                 Ann("BIT", "Reserved", <<6, 0>>))

handle_response_r3(d, res) ==
    LET d1 == [d EXCEPT !.es_cmd = d.es, !.read_buf = Append(@, res),
                        !.read_bits = Append(@, d.miso_bits)]
    IN  IF Len(d1.read_buf) = 1
        THEN putx(handle_response_r1(d1, res), Ann("R3", "R1", <<res>>))
        ELSE IF Len(d1.read_buf) < R3Len THEN d1
        ELSE [DecodeR3(d1) EXCEPT !.state = "IDLE", !.read_buf = <<>>,
                                  !.read_bits = <<>>]

decode_voltage(value) ==
    CASE value = 1 -> "2.7-3.6V"
      [] value = 2 -> "Reserved for Low Voltage Range"
      [] value \in {4, 8} -> "Reserved"
      [] OTHER -> "Not Defined"

\* Lines 577-597: the fifth byte of an R7 response has arrived.
DecodeR7(d) ==
    LET r1 == d.read_buf[1]
        version == d.read_buf[1] \div 16
        voltage == decode_voltage(d.read_buf[4])
        pattern == d.read_buf[5]
        d1 == putx(d, Ann("R7", "R7: [R1, Command Version, Voltage Accepted: "
                                \o voltage \o ", Check Pattern]",
                          <<r1, version, pattern>>))
        d2 == putb(SetBits(d1, get_bit(d, 31), get_bit(d, 28)),
                   Ann("BIT", "Command Version", <<version>>))
        d3 == putb(SetBits(d2, get_bit(d, 27), get_bit(d, 12)),
                   Ann("BIT", "Reserved", <<27, 12>>))
        d4 == putb(SetBits(d3, get_bit(d, 11), get_bit(d, 8)),
                   Ann("BIT", "Voltage Accepted: " \o voltage, <<>>))
    IN  putb(SetBits(d4, get_bit(d, 7), get_bit(d, 0)),
             Ann("BIT", "Check Pattern", <<pattern>>))

handle_response_r7(d, res) ==
    LET d1 == [d EXCEPT !.es_cmd = d.es, !.read_buf = Append(@, res),
                        !.read_bits = Append(@, d.miso_bits)]
    IN  IF Len(d1.read_buf) = 1
        THEN putx(handle_response_r1(d1, res), Ann("R7", "R1", <<res>>))
        ELSE IF Len(d1.read_buf) < R7Len THEN d1
        ELSE [DecodeR7(d1) EXCEPT !.state = "IDLE", !.read_buf = <<>>,
                                  !.read_bits = <<>>]

\* Lines 782-792: the generic 'GET RESPONSE' branch; only 'GET RESPONSE R1'
\* reaches it, and its handler is handle_response_r1.
ResponseBranch(d, miso) ==
    IF miso = 255 THEN d
    ELSE handle_response_r1([d EXCEPT !.state = "IDLE"], miso)

\* The 'HANDLE CMD...' branch that goes on to decode the same byte as the
\* R1 response.
HandleCmdBranchThenResponse(d, miso) ==
    LET n == CmdStrOf(d.state)
        h == HandlerName(d.is_acmd, n)
    IN  IF h \notin Handlers THEN Raise(d, "AttributeError")
        ELSE LET d1 == CallHandler(h, d, miso)
                 d2 == [d1 EXCEPT !.cmd_token = <<>>, !.cmd_token_bits = <<>>,
                                  !.is_acmd = LeaveAcmd(d1.is_acmd, n)]
             IN  IF d2.state = "GET RESPONSE R1" /\ miso # 255
                 THEN handle_response_r1([d2 EXCEPT !.state = "IDLE"], miso)
                 ELSE d2

\* Lines 765-775: the 'HANDLE CMD...' branch of decode().
HandleCmdBranch(d, miso) ==
    LET n == CmdStrOf(d.state)
        h == HandlerName(d.is_acmd, n)
    IN  IF h \notin Handlers THEN Raise(d, "AttributeError")
        ELSE LET d1 == CallHandler(h, d, miso)
             IN  [d1 EXCEPT !.cmd_token = <<>>, !.cmd_token_bits = <<>>,
                            !.is_acmd = LeaveAcmd(d1.is_acmd, n)]

\* ------------------------------------------------------------- data blocks
\* The block length left as it is when the first payload byte arrives.
BlockLenAtStartKeepsZero(d) == d.blocklen

\* "Assume a fixed block size" when the first payload byte arrives.
BlockLenAtStart(d) ==
    IF Len(d.read_buf) = 0 /\ IsZero(d.blocklen) THEN U32(DefaultBlockLen)
    ELSE d.blocklen

\* handle_data_cmd17 that takes the block to end with its first CRC byte.
handle_data_cmd17_one_crc_byte(d, miso) ==
    IF d.cmd17_start_token_found
    THEN LET d1 == [d EXCEPT !.ss_data = IF Len(d.read_buf) = 0 THEN d.ss
                                          ELSE @,
                             !.blocklen = BlockLenAtStart(d),
                             !.read_buf = Append(@, miso)]
             n == Len(d1.read_buf)
         IN  IF Less(n, d1.blocklen) THEN d1
             ELSE IF Equal(n, d1.blocklen, 0)
             THEN put([d1 EXCEPT !.es_data = d.es], d1.ss_data, d.es,
                      Ann("CMD17", "Block data", d1.read_buf))
             ELSE [put([d1 EXCEPT !.ss_crc = d.ss, !.es_crc = d.es],
                       d.ss, d.es, Ann("CMD17", "CRC", <<>>))
                      EXCEPT !.state = "IDLE", !.read_buf = <<>>,
                             !.cmd17_start_token_found = FALSE,
                             !.is_cmd17 = FALSE]
    ELSE IF miso = 254
    THEN [put(d, d.ss, d.es, Ann("CMD17", "Start Block", <<>>))
             EXCEPT !.cmd17_start_token_found = TRUE]
    ELSE d

handle_data_cmd17(d, miso) ==
    IF d.cmd17_start_token_found
    THEN LET d1 == [d EXCEPT !.ss_data = IF Len(d.read_buf) = 0 THEN d.ss
                                          ELSE @,
                             !.blocklen = BlockLenAtStart(d),
                             !.read_buf = Append(@, miso)]
             n == Len(d1.read_buf)
         IN  IF Less(n, d1.blocklen) THEN d1
             ELSE IF Equal(n, d1.blocklen, 0)
             THEN put([d1 EXCEPT !.es_data = d.es], d1.ss_data, d.es,
                      Ann("CMD17", "Block data", d1.read_buf))
             ELSE IF Equal(n, d1.blocklen, 1) THEN [d1 EXCEPT !.ss_crc = d.ss]
             ELSE IF Equal(n, d1.blocklen, 2)
             THEN [put([d1 EXCEPT !.es_crc = d.es], d1.ss_crc, d.es,
                       Ann("CMD17", "CRC", <<>>))
                      EXCEPT !.state = "IDLE", !.read_buf = <<>>,
                             !.cmd17_start_token_found = FALSE,
                             !.is_cmd17 = FALSE]
             ELSE d1
    ELSE IF miso = 254
    THEN [put(d, d.ss, d.es, Ann("CMD17", "Start Block", <<>>))
             EXCEPT !.cmd17_start_token_found = TRUE]
    ELSE d

\* handle_data_cmd24 that consumes the two CRC bytes after the payload.
handle_data_cmd24_with_crc(d, mosi) ==
    IF d.cmd24_start_token_found
    THEN LET d1 == [d EXCEPT !.ss_data = IF Len(d.read_buf) = 0 THEN d.ss
                                          ELSE @,
                             !.blocklen = BlockLenAtStart(d),
                             !.read_buf = Append(@, mosi)]
             n == Len(d1.read_buf)
         IN  IF Less(n, d1.blocklen) THEN d1
             ELSE IF Equal(n, d1.blocklen, 0)
             THEN put([d1 EXCEPT !.es_data = d.es], d1.ss_data, d.es,
                      Ann("CMD24", "Block data", d1.read_buf))
             ELSE IF Equal(n, d1.blocklen, 1) THEN d1
             ELSE [d1 EXCEPT !.state = "DATA RESPONSE", !.read_buf = <<>>,
                             !.cmd24_start_token_found = FALSE]
    ELSE IF mosi = 254
    THEN [put(d, d.ss, d.es, Ann("CMD24", "Start Block", <<>>))
             EXCEPT !.cmd24_start_token_found = TRUE]
    ELSE d

handle_data_cmd24(d, mosi) ==
    IF d.cmd24_start_token_found
    THEN LET d1 == [d EXCEPT !.ss_data = IF Len(d.read_buf) = 0 THEN d.ss
                                          ELSE @,
                             !.blocklen = BlockLenAtStart(d),
                             !.read_buf = Append(@, mosi)]
         IN  IF Less(Len(d1.read_buf), d1.blocklen) THEN d1
             ELSE [put([d1 EXCEPT !.es_data = d.es], d1.ss_data, d.es,
                       Ann("CMD24", "Block data", d1.read_buf))
                      EXCEPT !.state = "DATA RESPONSE", !.read_buf = <<>>,
                             !.cmd24_start_token_found = FALSE]
    ELSE IF mosi = 254
    THEN [put(d, d.ss, d.es, Ann("CMD24", "Start Block", <<>>))
             EXCEPT !.cmd24_start_token_found = TRUE]
    ELSE d

\* miso & 0x1f and miso & 0x11.
And1f(v) == v % 32
\* The mask without its bit 4.
And11LowBit(v) == Bit(v, 0)
And11(v) == 16 * Bit(v, 4) + Bit(v, 0)

DataResponseText(d, m) ==
    LET ss_status == d.miso_bits[3][2]
        es_status == d.miso_bits[1][3]
    IN  CASE m = 5 ->
               put(d, ss_status, es_status, Ann("BIT", "Data accepted", <<>>))
          [] m = 11 ->
               put(d, ss_status, es_status,
                   Ann("BIT", "Data rejected (CRC error)", <<>>))
          [] m = 13 ->
               put(d, ss_status, es_status,
                   Ann("BIT", "Data rejected (write error)", <<>>))
          [] OTHER -> d

handle_data_response(d, miso0) ==
    LET miso == And1f(miso0)
    IN  IF And11(miso) # 1 THEN d
        ELSE LET m == d.miso_bits
                 da == put(d, m[7][2], m[5][3], Ann("BIT", "Don't care", <<>>))
                 db == put(da, m[4][2], m[4][3], Ann("BIT", "Always 0", <<>>))
                 d1 == put(DataResponseText(db, miso), m[0][2], m[0][3],
                           Ann("BIT", "Always 1", <<>>))
             IN  IF d1.is_cmd24
                 THEN [put(d1, d.ss, d.es, Ann("CMD24", "Data Response", <<>>))
                          EXCEPT !.state = "WAIT WHILE CARD BUSY",
                                 !.busy_first_byte = TRUE]
                 ELSE [d1 EXCEPT !.state = "IDLE"]

\* wait_while_busy that leaves the write-block flag set.
wait_while_busy_keeps_cmd24(d, miso) ==
    IF miso # 0
    THEN IF d.is_cmd24
         THEN [put(d, d.ss_busy, d.es_busy, Ann("CMD24", "Card is busy", <<>>))
                  EXCEPT !.state = "IDLE"]
         ELSE [d EXCEPT !.state = "IDLE"]
    ELSE IF d.busy_first_byte
    THEN [d EXCEPT !.ss_busy = d.ss, !.busy_first_byte = FALSE]
    ELSE [d EXCEPT !.es_busy = d.es]

wait_while_busy(d, miso) ==
    IF miso # 0
    THEN IF d.is_cmd24
         THEN [put(d, d.ss_busy, d.es_busy, Ann("CMD24", "Card is busy", <<>>))
                  EXCEPT !.is_cmd24 = FALSE, !.state = "IDLE"]
         ELSE [d EXCEPT !.state = "IDLE"]
    ELSE IF d.busy_first_byte
    THEN [d EXCEPT !.ss_busy = d.ss, !.busy_first_byte = FALSE]
    ELSE [d EXCEPT !.es_busy = d.es]

\* ------------------------------------------------------------------ decode
\* CsReset without the reset of the write-block flag.
CsResetKeepsCmd24(d) ==
    [d EXCEPT !.state = "IDLE", !.read_buf = <<>>, !.read_bits = <<>>,
              !.is_cmd17 = FALSE, !.cmd17_start_token_found = FALSE,
              !.cmd24_start_token_found = FALSE, !.busy_first_byte = FALSE]

\* CsReset that also forgets the block length.
CsResetClearsBlocklen(d) ==
    [d EXCEPT !.state = "IDLE", !.read_buf = <<>>, !.read_bits = <<>>,
              !.is_cmd17 = FALSE, !.cmd17_start_token_found = FALSE,
              !.is_cmd24 = FALSE, !.cmd24_start_token_found = FALSE,
              !.busy_first_byte = FALSE, !.blocklen = U32(0)]

\* Lines 738-746: "Reset state when CS is asserted."
CsReset(d) ==
    [d EXCEPT !.state = "IDLE", !.read_buf = <<>>, !.read_bits = <<>>,
              !.is_cmd17 = FALSE, !.cmd17_start_token_found = FALSE,
              !.is_cmd24 = FALSE, !.cmd24_start_token_found = FALSE,
              !.busy_first_byte = FALSE]

\* A 'CS-CHANGE' packet that sets every field CsReset sets, whatever the
\* new level.
CsBranchAnyLevel(d, new) == CsReset(d)

\* Lines 731-747: the 'CS-CHANGE' branch; new is the new level of CS#.
CsBranch(d, new) == IF new = 0 THEN CsReset(d) ELSE d

\* The decoder runs until a decode() call raises.
Running == exc = "none"
\* The SPI decoder sends a 'BITS' packet right before each 'DATA' packet
\* and nothing in between.
BitsPending == ptype = "BITS"
\* The place in time, 0 to 7, of entry i of a bit list of this run: the
\* most significant bit is sent first.
PlaceOf(i) == IF scn.msb_first THEN i ELSE 7 - i
\* The bit list of a byte of the next 'DATA' packet: entry i is
\* <<bit, ss, es>>.  And the byte of a bit list.
PacketBits(v) ==
    LET vals == IF scn.msb_first THEN BitsMsbFirst(v) ELSE BitsOf(v)
        at == IF scn.timed THEN SsOf(clock) ELSE 0
        len == IF scn.timed THEN 1 ELSE 0
    IN  [i \in 0..7 |-> <<vals[i], at + len * PlaceOf(i),
                          at + len * (PlaceOf(i) + 1)>>]
ByteIn(bits) ==
    LET vals == [i \in 0..7 |-> bits[i][1]]
    IN  IF scn.msb_first THEN ByteOfMsbFirst(vals) ELSE ByteOf(vals)
MosiIn == ByteIn(mosi_bits)
MisoIn == ByteIn(miso_bits)

\* What the host sends next: the rest of its script, or else one byte of its
\* alphabet or a new script.
HostMoves ==
    IF script # <<>> THEN {script}
    ELSE {<<b>> : b \in scn.host} \cup scn.scripts

\* decode() of a 'BITS' packet.
Bits ==
    /\ Running /\ ~BitsPending
    /\ scn.timed => clock < MaxBytes
    /\ \E move \in HostMoves, miso \in scn.card :
          /\ Commit([Self EXCEPT !.mosi_bits = PacketBits(Head(move)),
                                 !.miso_bits = PacketBits(miso)])
          /\ script' = Tail(move)
    /\ ptype' = "BITS"
    /\ from' = state
    /\ UNCHANGED <<scn, stale, tok55, clock, run, last16>>

\* decode() of a 'CS-CHANGE' packet; the host changes the level of CS#
\* between two of its scripts.
CsChange ==
    /\ Running /\ ~BitsPending
    /\ script = <<>>
    /\ \E new \in {0, 1} :
          /\ Commit(CsBranch(Self, new))
          /\ ptype' = "CS-CHANGE " \o ToString(new)
          /\ from' = state
          /\ stale' = IF new = 0 THEN Len(cmd_token) ELSE stale
    /\ UNCHANGED <<scn, tok55, script, clock, run, last16>>

\* A 'DATA' packet that does not store its sample range.
DataSelfKeepsRange == Self

\* Lines 718-719: a 'DATA' packet stores its sample range.
DataSelf ==
    [Self EXCEPT !.ss = IF scn.timed THEN SsOf(clock) ELSE 0,
                 !.es = IF scn.timed THEN EsOf(clock) ELSE 0]

\* The instrumentation of every 'DATA' packet.
DataPacket ==
    /\ ptype' = "DATA"
    /\ from' = state
    /\ clock' = IF scn.timed THEN clock + 1 ELSE clock
    /\ UNCHANGED <<scn, script>>

\* The instrumentation of a 'DATA' packet that went to handle_command_token.
TokenStep(d) ==
    /\ Commit(d)
    /\ DataPacket
    /\ tok55' = IF Len(d.cmd_token) >= TokenLen /\ tok55 \in {0, 1}
                THEN tok55 + 1 ELSE tok55
    /\ run' = <<>>
    /\ UNCHANGED <<stale, last16>>

\* The instrumentation of every other 'DATA' packet.
DataStep(d) ==
    /\ Commit(d)
    /\ DataPacket
    /\ run' = <<>>
    /\ UNCHANGED <<stale, tok55, last16>>

\* decode() of a 'DATA' packet, by the branch of the state machine.
DataIdle ==
    /\ Running /\ BitsPending /\ state = "IDLE"
    /\ IF MosiIn = 255 THEN DataStep(DataSelf)
       ELSE /\ Len(cmd_token) < MaxTokenLen
            /\ TokenStep(handle_command_token(
                   [DataSelf EXCEPT !.state = "GET COMMAND TOKEN"], MosiIn))

DataGetCommandToken ==
    /\ Running /\ BitsPending /\ state = "GET COMMAND TOKEN"
    /\ Len(cmd_token) < MaxTokenLen
    /\ TokenStep(handle_command_token(DataSelf, MosiIn))

DataHandleCmd ==
    /\ Running /\ BitsPending /\ IsHandleState(state)
    /\ LET d == HandleCmdBranch(DataSelf, MisoIn)
       IN  /\ Commit(d)
           /\ stale' = IF d.exc = "none" THEN 0 ELSE stale
           /\ tok55' = IF d.exc = "none" /\ state = HandleState(CmdAppCmd)
                       THEN 0 ELSE tok55
           /\ last16' = IF d.exc = "none" /\ state = HandleState(16)
                        THEN Arg(Self) ELSE last16
    /\ DataPacket
    /\ run' = <<>>

DataResponseR2 ==
    /\ Running /\ BitsPending /\ state = "GET RESPONSE R2"
    /\ DataStep(handle_response_r2(DataSelf, MisoIn))

DataResponseR3 ==
    /\ Running /\ BitsPending /\ state = "GET RESPONSE R3"
    /\ DataStep(handle_response_r3(DataSelf, MisoIn))

DataResponseR7 ==
    /\ Running /\ BitsPending /\ state = "GET RESPONSE R7"
    /\ DataStep(handle_response_r7(DataSelf, MisoIn))

DataResponse ==
    /\ Running /\ BitsPending /\ state = "GET RESPONSE R1"
    /\ DataStep(ResponseBranch(DataSelf, MisoIn))

DataBlockCmd17 ==
    /\ Running /\ BitsPending /\ state = "HANDLE DATA BLOCK CMD17"
    /\ Len(read_buf) < scn.maxbuf + 2
    /\ DataStep(handle_data_cmd17(DataSelf, MisoIn))

DataBlockCmd24 ==
    /\ Running /\ BitsPending /\ state = "HANDLE DATA BLOCK CMD24"
    /\ Len(read_buf) < scn.maxbuf
    /\ DataStep(handle_data_cmd24(DataSelf, MosiIn))

DataDataResponse ==
    /\ Running /\ BitsPending /\ state = "DATA RESPONSE"
    /\ DataStep(handle_data_response(DataSelf, MisoIn))

DataWaitWhileBusy ==
    /\ Running /\ BitsPending /\ state = "WAIT WHILE CARD BUSY"
    /\ Commit(wait_while_busy(DataSelf, MisoIn))
    /\ DataPacket
    /\ run' = IF MisoIn # 0 THEN run
              ELSE IF run = <<>> THEN <<DataSelf.ss, DataSelf.es>>
              ELSE <<run[1], DataSelf.es>>
    /\ UNCHANGED <<stale, tok55, last16>>

Next ==
    \/ Bits
    \/ CsChange
    \/ DataIdle
    \/ DataGetCommandToken
    \/ DataHandleCmd
    \/ DataResponseR2
    \/ DataResponseR3
    \/ DataResponseR7
    \/ DataResponse
    \/ DataBlockCmd17
    \/ DataBlockCmd24
    \/ DataDataResponse
    \/ DataWaitWhileBusy

Spec == Init /\ [][Next]_vars
\* The same decoder under the hosts that send whole command tokens.
SpecScript == InitScript /\ [][Next]_vars

TypeOK ==
    /\ exc \in {"none", "AttributeError", "TypeError"}
    /\ Len(cmd_token) = Len(cmd_token_bits)
    /\ Len(cmd_token) <= MaxTokenLen
\* ------------------------------------------------------------------ claims
HandleStates == {HandleState(n) : n \in HandledCmds \cup {999}}
ResponseStates ==
    {"GET RESPONSE R1", "GET RESPONSE R2", "GET RESPONSE R3", "GET RESPONSE R7"}
\* The last packet was a 'DATA' packet that the branch of state st decoded.
Decoded(st) == ptype = "DATA" /\ from = st
\* The last packet was a 'DATA' packet that completed a command token.
TokenParsed ==
    /\ ptype = "DATA" /\ from \in {"IDLE", "GET COMMAND TOKEN"}
    /\ state \in HandleStates

\* C1: after a CS-CHANGE packet whose new level is 0, from any state, the
\* state is IDLE, read_buf and read_bits are empty, and is_cmd17, is_cmd24,
\* both start_token_found flags and busy_first_byte are false.
C1_CsAssertResets ==
    ptype = "CS-CHANGE 0" =>
        /\ state = "IDLE"
        /\ read_buf = <<>> /\ read_bits = <<>>
        /\ ~is_cmd17 /\ ~is_cmd24
        /\ ~cmd17_start_token_found /\ ~cmd24_start_token_found
        /\ ~busy_first_byte

\* C1 witness: CS was asserted while the decoder waited for the card to
\* stop being busy after a write.
C1_Witness == ptype = "CS-CHANGE 0" /\ from = "WAIT WHILE CARD BUSY"

\* C2: a command token of which 1 to 5 bytes were accumulated when CS was
\* asserted is discarded: no token is parsed that holds bytes received
\* before the CS assertion.
C2_PartialTokenDiscarded == TokenParsed => stale \notin 1..5

\* C3: cmd_token never holds more than 6 bytes, and once it holds 6 the next
\* change to it empties it.
C3_TokenAtMostSix ==
    [][/\ Len(cmd_token') <= TokenLen
       /\ Len(cmd_token) = TokenLen => Len(cmd_token') \in {0, TokenLen}]_vars

\* C4: is_acmd is true only from handle_cmd55 until the one following
\* command token has been handled: never while a second command token after
\* the CMD55 is accumulated or handled.
C4_AcmdOnlyForOneToken ==
    is_acmd =>
        \/ tok55 = 0
        \/ tok55 = 1 /\ state \in HandleStates \cup {"IDLE"}

\* C5 as claimed: is_acmd is true in the state right after the 'DATA' packet
\* with the sixth byte of a CMD55 token.
C5_AcmdAfterSixthByte ==
    (TokenParsed /\ state = HandleState(CmdAppCmd)) => is_acmd

\* C5 as amended: is_acmd is false while the state is 'HANDLE CMD55', which
\* the sixth byte of a CMD55 token leaves, and the next 'DATA' packet sets it
\* and moves to 'GET RESPONSE R1'.
C5_AcmdAfterHandling ==
    /\ [](state = HandleState(CmdAppCmd) => ~is_acmd)
    /\ [][(state = HandleState(CmdAppCmd) /\ ptype' = "DATA")
            => (is_acmd' /\ state' = "GET RESPONSE R1" /\ exc' = "none")]_vars

\* C5 witness: handle_cmd55 has just run.
C5_Witness ==
    Decoded(HandleState(CmdAppCmd)) /\ is_acmd /\ state = "GET RESPONSE R1"

\* C6: a six-byte token with an unhandled command index emits the hex dump
\* of its six bytes, and the next 'DATA' packet moves to 'GET RESPONSE R1'
\* without an exception, also when the token follows a CMD55.
C6_UnhandledCommandProceeds ==
    /\ (TokenParsed /\ state = "HANDLE CMD999" /\ Len(cmd_token) = TokenLen)
          => \E i \in 1..Len(out) :
                out[i].cls = "CMD" \o ToString(cmd_index)
                /\ out[i].val = cmd_token
    /\ Decoded("HANDLE CMD999")
          => (exc = "none" /\ state = "GET RESPONSE R1")

\* C7: for every handled command index and either value of is_acmd, the
\* 'DATA' packet after the token finds a handler and leaves a response state,
\* a data-block state or IDLE (CMD9 stays in its state while it accumulates).
C7_HandledCommandProceeds ==
    \A n \in HandledCmds :
        Decoded(HandleState(n)) =>
            /\ exc = "none"
            /\ state \in ResponseStates
                   \cup {"HANDLE DATA BLOCK CMD17", "HANDLE DATA BLOCK CMD24",
                         "IDLE"}
                   \cup (IF n = 9 THEN {HandleState(9)} ELSE {})

\* C8: in 'GET RESPONSE R1' a card byte 0xFF changes nothing and any other
\* card byte completes the response: the next state is the read data block
\* state iff the command was CMD17, the write data block state iff it was
\* CMD24, and IDLE otherwise.
C8_R1NextPhase ==
    Decoded("GET RESPONSE R1") =>
        IF MisoIn = 255 THEN state = "GET RESPONSE R1" /\ out = <<>>
        ELSE /\ out # <<>> /\ out[1].cls = "R1" /\ out[1].val = <<MisoIn>>
             /\ state = "HANDLE DATA BLOCK CMD17" <=> cmd_index = 17
             /\ state = "HANDLE DATA BLOCK CMD24" <=> cmd_index = 24
             /\ state = "IDLE" <=> cmd_index \notin {17, 24}

\* C8 witness: the R1 response to a CMD17 has been decoded.
C8_Witness ==
    Decoded("GET RESPONSE R1") /\ state = "HANDLE DATA BLOCK CMD17"

\* C9: in every response state a card byte 0xFF that arrives before the
\* first response byte changes neither the state nor read_buf and emits
\* nothing.
C9_FillerIgnored ==
    [][(/\ state \in ResponseStates /\ read_buf = <<>>
        /\ ptype = "BITS" /\ ptype' = "DATA" /\ MisoIn = 255)
          => (state' = state /\ read_buf' = <<>> /\ out' = <<>>)]_vars

\* C10: 'GET RESPONSE R2' is left by the second response byte and
\* 'GET RESPONSE R3'/'R7' by the fifth, for IDLE with read_buf and read_bits
\* empty; every earlier byte is accumulated and leaves the state as it is.
C10_MultiByteResponse ==
    [][(state \in {"GET RESPONSE R2", "GET RESPONSE R3", "GET RESPONSE R7"}
        /\ ptype' = "DATA")
          => LET need == IF state = "GET RESPONSE R2" THEN 2 ELSE 5
             IN  /\ Len(read_buf) < need
                 /\ IF Len(read_buf) + 1 = need
                    THEN state' = "IDLE" /\ read_buf' = <<>> /\ read_bits' = <<>>
                    ELSE state' = state /\ Len(read_buf') = Len(read_buf) + 1]_vars

\* C10 witness: the fifth byte of an R3 response has been decoded.
C10_Witness ==
    /\ Decoded("GET RESPONSE R3") /\ state = "IDLE"
    /\ \E i \in 1..Len(out) : out[i].txt = "R3: [R1, OCR]"

\* The texts of the annotations of the last decode() call.
Texts == [i \in 1..Len(out) |-> out[i].txt]

\* C11: in 'HANDLE DATA BLOCK CMD17' every card byte other than 0xFE before
\* the start token changes nothing; 0xFE sets the start-token flag; of the
\* bytes after it the first blocklen are accumulated and the last of them
\* emits the one 'Block data' annotation, with those bytes; the next byte
\* emits nothing and the one after it emits 'CRC' and leaves the state for
\* IDLE with read_buf empty and is_cmd17 and the start-token flag false.
C11_ReadDataBlock ==
    [][(state = "HANDLE DATA BLOCK CMD17" /\ ptype' = "DATA")
          => LET n == Len(read_buf) + 1
                 len == Low16(blocklen')
                 buf == Append(read_buf, MisoIn)
             IN  IF ~cmd17_start_token_found
                 THEN /\ state' = state /\ read_buf' = <<>>
                      /\ cmd17_start_token_found' = (MisoIn = 254)
                      /\ Texts' = IF MisoIn = 254 THEN <<"Start Block">>
                                  ELSE <<>>
                 ELSE /\ Fits16(blocklen') /\ len > 0 /\ n <= len + 2
                      /\ n < len + 2
                            => /\ state' = state /\ read_buf' = buf
                               /\ is_cmd17' /\ cmd17_start_token_found'
                      /\ n \notin {len, len + 2} => out' = <<>>
                      /\ n = len
                            => /\ Texts' = <<"Block data">>
                               /\ out'[1].val = buf
                      /\ n = len + 2
                            => /\ Texts' = <<"CRC">>
                               /\ state' = "IDLE" /\ read_buf' = <<>>
                               /\ ~is_cmd17' /\ ~cmd17_start_token_found']_vars

\* C11 witness: the second CRC byte of a read block has been decoded.
C11_Witness ==
    /\ Decoded("HANDLE DATA BLOCK CMD17") /\ state = "IDLE"
    /\ Texts = <<"CRC">> /\ read_buf = <<>> /\ ~is_cmd17

\* A data-block state after its start token.
InPayload ==
    \/ state = "HANDLE DATA BLOCK CMD17" /\ cmd17_start_token_found
    \/ state = "HANDLE DATA BLOCK CMD24" /\ cmd24_start_token_found
\* The byte a data-block state accumulates from the pending packet.
PayloadIn == IF state = "HANDLE DATA BLOCK CMD17" THEN MisoIn ELSE MosiIn
BlockData(o) == \E i \in 1..Len(o) : o[i].txt = "Block data"

\* C12: once a CMD16 with an argument N > 0 has been handled (and no later
\* CMD16 with another argument), a byte of a CMD17 or CMD24 data block after
\* the start token emits 'Block data' iff it is the N-th, and the annotation
\* holds those N bytes; whatever commands and CS assertions came in between.
C12_BlockLenFromCmd16 ==
    [][(/\ InPayload /\ ptype' = "DATA"
        /\ last16 # <<>> /\ ~IsZero(last16))
          => /\ Fits16(last16)
             /\ BlockData(out') <=> Len(read_buf) + 1 = Low16(last16)
             /\ BlockData(out')
                   => out'[1].val = Append(read_buf, PayloadIn)]_vars

\* C12 witness: the second payload byte of a write block has been decoded,
\* the last CMD16 having set a block length of 2.
C12_Witness ==
    /\ Decoded("HANDLE DATA BLOCK CMD24") /\ BlockData(out)
    /\ last16 = U32(2) /\ Len(out[1].val) = 2

\* C13: while no CMD16 has been handled, every byte of a CMD17 or CMD24 data
\* block after the start token leaves blocklen at 512, and it emits
\* 'Block data' iff it is the 512th, with those 512 bytes.
C13_DefaultBlockLen ==
    [][(InPayload /\ ptype' = "DATA" /\ last16 = <<>>)
          => /\ blocklen' = U32(DefaultBlockLen)
             /\ BlockData(out') <=> Len(read_buf) + 1 = DefaultBlockLen
             /\ BlockData(out')
                   => out'[1].val = Append(read_buf, PayloadIn)]_vars

\* C13 witness: the 512th payload byte of a read block has been decoded in a
\* run without a CMD16.
C13_Witness ==
    /\ Decoded("HANDLE DATA BLOCK CMD17") /\ BlockData(out)
    /\ last16 = <<>> /\ Len(out[1].val) = DefaultBlockLen

\* C14: in 'HANDLE DATA BLOCK CMD24' every host byte other than 0xFE before
\* the start token changes nothing; 0xFE sets the start-token flag; of the
\* host bytes after it the first blocklen are accumulated, and the last of
\* them emits the one 'Block data' annotation, with those bytes, and leaves
\* the state for 'DATA RESPONSE' with read_buf empty: no further byte is
\* consumed in the data-block state.
C14_WriteDataBlock ==
    [][(state = "HANDLE DATA BLOCK CMD24" /\ ptype' = "DATA")
          => LET n == Len(read_buf) + 1
                 len == Low16(blocklen')
                 buf == Append(read_buf, MosiIn)
             IN  IF ~cmd24_start_token_found
                 THEN /\ state' = state /\ read_buf' = <<>>
                      /\ cmd24_start_token_found' = (MosiIn = 254)
                      /\ Texts' = IF MosiIn = 254 THEN <<"Start Block">>
                                  ELSE <<>>
                 ELSE /\ Fits16(blocklen') /\ len > 0 /\ n <= len
                      /\ n < len
                            => /\ state' = state /\ read_buf' = buf
                               /\ out' = <<>> /\ cmd24_start_token_found'
                      /\ n = len
                            => /\ Texts' = <<"Block data">>
                               /\ out'[1].val = buf
                               /\ state' = "DATA RESPONSE"
                               /\ read_buf' = <<>>
                               /\ ~cmd24_start_token_found']_vars

\* C14 witness: the last payload byte of a write block has been decoded,
\* after host bytes that came before the start token.
C14_Witness ==
    /\ Decoded("HANDLE DATA BLOCK CMD24") /\ state = "DATA RESPONSE"
    /\ read_buf = <<>> /\ Texts = <<"Block data">>

\* The last decode() call emitted an annotation with the text t.
Emitted(o, t) == \E i \in 1..Len(o) : o[i].txt = t

\* C15: in 'DATA RESPONSE' a card byte with bit 4 clear and bit 0 set moves
\* to 'WAIT WHILE CARD BUSY' and emits 'Data Response', with 'Data accepted'
\* for 0x05, 'Data rejected (CRC error)' for 0x0B and 'Data rejected (write
\* error)' for 0x0D; every other card byte changes no field and emits
\* nothing.
C15_DataResponse ==
    [][(state = "DATA RESPONSE" /\ ptype' = "DATA")
          => IF Bit(MisoIn, 4) = 0 /\ Bit(MisoIn, 0) = 1
             THEN /\ state' = "WAIT WHILE CARD BUSY"
                  /\ Emitted(out', "Data Response")
                  /\ MisoIn = 5 => Emitted(out', "Data accepted")
                  /\ MisoIn = 11 => Emitted(out', "Data rejected (CRC error)")
                  /\ MisoIn = 13
                        => Emitted(out', "Data rejected (write error)")
             ELSE /\ out' = <<>>
                  /\ UNCHANGED <<state, read_buf, read_bits, is_cmd24,
                                 is_cmd17, busy_first_byte, blocklen,
                                 cmd_token, is_acmd, ss_busy, es_busy>>]_vars

\* C15 witness: a data response of 0x0B has been decoded.
C15_Witness ==
    /\ Decoded("DATA RESPONSE") /\ state = "WAIT WHILE CARD BUSY"
    /\ MisoIn = 11 /\ Emitted(out, "Data rejected (CRC error)")

\* C16: in 'WAIT WHILE CARD BUSY' a zero card byte keeps the state and
\* emits nothing; a non-zero card byte moves to IDLE and emits the one
\* 'Card is busy' annotation, which, when zero bytes came before it, starts
\* at the start of the first and ends at the end of the last of them.
C16_BusyRange ==
    [][(state = "WAIT WHILE CARD BUSY" /\ ptype' = "DATA")
          => IF MisoIn = 0 THEN state' = state /\ out' = <<>>
             ELSE /\ state' = "IDLE"
                  /\ Texts' = <<"Card is busy">>
                  /\ run # <<>> => /\ out'[1].ss = run[1]
                                   /\ out'[1].es = run[2]]_vars

C18_Cmd10Handled ==
    (TokenParsed /\ cmd_index = 10)
        => /\ state = HandleState(10)
           /\ ~Emitted(out, "CMD10: hex")

\* C19: in IDLE a host byte 0xFF changes no field and emits nothing; every
\* other host byte becomes the first byte of a new command token, and the
\* state becomes 'GET COMMAND TOKEN'.
C19_IdleStartsToken ==
    [][(state = "IDLE" /\ ptype' = "DATA")
          => IF MosiIn = 255
             THEN /\ out' = <<>>
                  /\ UNCHANGED <<state, cmd_token, cmd_token_bits, is_acmd,
                                 blocklen, read_buf, read_bits, is_cmd17,
                                 is_cmd24>>
             ELSE /\ cmd_token' = <<MosiIn>>
                  /\ state' = "GET COMMAND TOKEN"]_vars

\* The annotations of a parsed token state its fields: the index is the low
\* 6 bits of byte 0, the argument bytes 1-4, most significant first, the
\* CRC byte 5 shifted right by one, and the start, transmitter and end bit
\* annotations are warnings exactly when bit 7 of byte 0, bit 6 of byte 0
\* and bit 0 of byte 5 are not 0, 1 and 1.
TokenFields ==
    LET t == cmd_token
        Warns(a) == a.cls = "BIT_WARNING"
    IN  /\ cmd_index = t[1] % 64
        /\ out[1].val = <<Bit(t[1], 7)>> /\ Warns(out[1]) <=> Bit(t[1], 7) # 0
        /\ out[2].val = <<Bit(t[1], 6)>> /\ Warns(out[2]) <=> Bit(t[1], 6) # 1
        /\ out[3].val = <<t[1] % 64>>
        /\ out[4].txt = "Argument" /\ out[4].val = <<t[2], t[3], t[4], t[5]>>
        /\ out[5].txt = "CRC7" /\ out[5].val = <<t[6] \div 2>>
        /\ out[6].val = <<Bit(t[6], 0)>> /\ Warns(out[6]) <=> Bit(t[6], 0) # 1

C25_IdleFlagsClear ==
    /\ state \in {"IDLE", "GET COMMAND TOKEN"}
          => /\ read_buf = <<>>
             /\ ~is_cmd17 /\ ~is_cmd24
             /\ ~cmd17_start_token_found /\ ~cmd24_start_token_found
    /\ ~(is_cmd17 /\ is_cmd24)

\* A write has gone through its busy time and the decoder is back in 'IDLE'.
C25_Witness ==
    /\ Decoded("WAIT WHILE CARD BUSY") /\ state = "IDLE" /\ exc = "none"

ResponseClasses == {"R1", "R2", "R3", "R7"}
\* C27: the 'DATA' packet that completes a command token leaves a
\* 'HANDLE CMD...' state, so that the next 'DATA' packet goes to the command
\* handler; that packet puts no R1, R2, R3 or R7 annotation, whatever its
\* MISO byte, and leaves read_buf empty when it enters a response state:
\* only a packet decoded in a 'GET RESPONSE' state puts such an annotation.
C27_HandleByteIsNotResponse ==
    /\ (ptype = "DATA" /\ from \in {"IDLE", "GET COMMAND TOKEN"}
          /\ state # "IDLE" /\ Len(cmd_token) >= TokenLen)
          => state \in HandleStates
    /\ (\E i \in 1..Len(out) : out[i].cls \in ResponseClasses)
          => (ptype = "DATA" /\ from \in ResponseStates)
    /\ (ptype = "DATA" /\ from \in HandleStates /\ state \in ResponseStates)
          => read_buf = <<>>

\* The byte after a CMD0 token had a MISO byte other than 0xff and the
\* decoder waits for the R1 response.
C27_Witness ==
    /\ Decoded(HandleState(0)) /\ MisoIn # 255
    /\ state = "GET RESPONSE R1" /\ out # <<>>

\* C21: whatever the start, transmitter and end bits are, a token is parsed
\* from exactly the six host bytes that arrived since the decoder was in
\* 'IDLE' with no token begun, without an exception, and the state it leaves
\* is the 'HANDLE CMD...' state of the command index alone.
C21_SixBytesOneToken ==
    TokenParsed
       => /\ Len(cmd_token) = TokenLen /\ stale = 0 /\ exc = "none"
          /\ state = IF CommandIndex(cmd_token) \in HandledCmds
                     THEN HandleState(CommandIndex(cmd_token))
                     ELSE "HANDLE CMD999"

\* The annotation of out whose text is t.
AnnOf(t) == out[CHOOSE i \in 1..Len(out) : out[i].txt = t]
PowerUpText == "Card has finished the power up routine"
R3Decoded == Decoded("GET RESPONSE R3") /\ Emitted(out, "R3: [R1, OCR]")

\* C22 as stated: the R3 response c0 08 00 00 00 after a CMD58 is decoded
\* with power-up status true, and the state is 'IDLE' after its fifth byte.
C22_PowerUpTrue ==
    (R3Decoded /\ AnnOf("R3: [R1, OCR]").val = <<192, 8, 0, 0, 0>>)
       => (AnnOf(PowerUpText).val = <<1>> /\ state = "IDLE")

\* C22, amended: the first byte of an R3 response is the R1 byte and the
\* OCR is the four bytes after it, so the power-up status is bit 7 of the
\* second byte: false for c0 08 00 00 00; the state is 'IDLE' after the
\* fifth byte.
C22_PowerUpIsBit7OfSecondByte ==
    R3Decoded
       => /\ AnnOf(PowerUpText).val = <<Bit(AnnOf("R3: [R1, OCR]").val[2], 7)>>
          /\ state = "IDLE" /\ read_buf = <<>>

\* The response c0 08 00 00 00 has been decoded.
C22_Witness ==
    /\ R3Decoded /\ AnnOf("R3: [R1, OCR]").val = <<192, 8, 0, 0, 0>>
    /\ AnnOf(PowerUpText).val = <<0>>

\* The descriptions the command handlers pass to putc.
Descriptions ==
    {"Reset the SD card", "Send HCS info and activate the card init process",
     "Send interface condition",
     "Ask card to send its card specific data (CSD)",
     "Ask card to send its card identification (CID)",
     "Ask card to send its status register", "Set the block length",
     "Read a block from address", "Write a block to address",
     "Next command is an application-specific command",
     "Read the OCR register", "Turn the SD card CRC option"}
\* The places in o of the one-line descriptions of the command str.
DescriptionsIn(o, str) ==
    {i \in 1..Len(o) : \E desc \in Descriptions :
                            o[i].txt = str \o ": " \o desc}
\* The sample range of the token in cmd_token_bits: from the start of the
\* first bit of its first byte to the end of the last bit of its last byte.
TokenRange(bits) ==
    <<bits[1][7 - PlaceOf(7)][2], bits[Len(bits)][PlaceOf(7)][3]>>

\* C24: a 'DATA' packet decoded in the 'HANDLE CMD<n>' state of a handled
\* command puts the one-line description of the command exactly once if it
\* is the first after the token, with the sample range of the token, and
\* not at all if it is a later one, as those of CMD9 are.
C24_OneDescriptionPerToken ==
    [][(state \in HandleStates \ {"HANDLE CMD999"}
          /\ ptype' = "DATA" /\ exc' = "none")
          => LET at == DescriptionsIn(out', cmd_str)
             IN  IF cmd_token = <<>> THEN at = {}
                 ELSE /\ Cardinality(at) = 1
                      /\ \A i \in at :
                            <<out'[i].ss, out'[i].es>>
                               = TokenRange(cmd_token_bits)]_vars

\* C26: every annotation put has a sample range whose start is not after its
\* end, the descriptions put while CMD9 collects its 20 bytes and
\* 'Card is busy' included.
C26_RangeStartBeforeEnd == \A i \in 1..Len(out) : out[i].ss <= out[i].es

\* C23 as stated: the annotations are put in the order of their start
\* samples: none starts before the one put before it, in the same decode()
\* call or in an earlier one.
C23_StartsNeverDecrease ==
    [][\A i \in 1..Len(out') :
          (IF i = 1 THEN last_ss ELSE out'[i - 1].ss) <= out'[i].ss]_vars

\* C23, amended: the annotations are put field by field, not in the order
\* of their start samples; what holds of every annotation is that its
\* range lies within the packets decoded so far: it neither starts nor
\* ends after the end of the 'DATA' packet during which it is put.
C23_NoAnnotationAheadOfInput ==
    \A i \in 1..Len(out) :
       /\ ptype = "DATA"
       /\ 0 <= out[i].ss /\ out[i].ss <= es
       /\ 0 <= out[i].es /\ out[i].es <= es

\* An R1 response in a run with sample numbers: the annotation of bit 0,
\* the last bit of the byte, is put before the annotation of bit 1.
C23_Witness ==
    /\ Decoded("GET RESPONSE R1") /\ scn.timed /\ Len(out) >= 3
    /\ out[2].txt = R1BitText[1] /\ out[3].txt = R1BitText[2]
    /\ out[2].ss > out[3].ss
====
